---- MODULE Spec2Model ----
(***************************************************************************)
(* Globals (src/database/globals.rs): the process-wide handle holding the  *)
(* server's configuration, its signing keypair and the monotonic counter,  *)
(* the last two persisted in a sled tree and mutated only through          *)
(* update_and_fetch.                                                       *)
(*                                                                         *)
(* Callers are threads of one process sharing one tree.  A call is split   *)
(* at its interactions with the tree: sled's update_and_fetch is a read    *)
(* followed by a compare-and-swap loop, so each of its steps is one action *)
(* and everything a caller computes locally after the committing step is   *)
(* part of that step.                                                      *)
(***************************************************************************)
EXTENDS Integers, Sequences, FiniteSets, Bags, TLC

\* ---------------------------------------------------------------- bounds
NumCallers == 2
MaxCalls == 3

Callers == 1..NumCallers

\* ------------------------------------------------------- Option / Result
None == <<>>
Some(x) == <<x>>
IsSome(o) == o # None
Unwrap(o) == o[1]

\* ----------------------------------------------------------------- bytes
U64Width == 8

\* u64::to_be_bytes for the values the model reaches (all below 2^31).
RECURSIVE be_digits(_, _)
be_digits(n, w) ==
    IF w = 0 THEN <<>> ELSE Append(be_digits(n \div 256, w - 1), n % 256)

to_be_bytes(n) == be_digits(n, U64Width)

RECURSIVE be_value(_)
be_value(bytes) ==
    IF bytes = <<>> THEN 0
    ELSE be_value(SubSeq(bytes, 1, Len(bytes) - 1)) * 256 + bytes[Len(bytes)]

\* utils::u64_from_bytes: exactly eight bytes decode big-endian, any other
\* width is an error.
u64_from_bytes(bytes) ==
    IF Len(bytes) = U64Width
    THEN [ok |-> TRUE, val |-> be_value(bytes)]
    ELSE [ok |-> FALSE, val |-> 0]

U64MaxBytes == [i \in 1..U64Width |-> 255]

\* utils::increment, the transform next_count hands to update_and_fetch.
\* The result is the set of outcomes the transform can have: one stored value,
\* except at u64::MAX where `+ 1` panics (overflow checks on) or wraps (off).
\* What it hands back is always a count re-encoded as eight bytes: the count
\* decoded from the stored bytes plus one, and 1 where there is no count to
\* decode, the key being absent or its bytes not eight wide.
increment(old) ==
    IF old = None \/ ~u64_from_bytes(Unwrap(old)).ok
    THEN {[panic |-> FALSE, next |-> Some(to_be_bytes(0 + 1))]}
    ELSE IF Unwrap(old) = U64MaxBytes
         THEN {[panic |-> TRUE, next |-> old],
               [panic |-> FALSE, next |-> Some([i \in 1..U64Width |-> 0])]}
    ELSE {[panic |-> FALSE,
           next |-> Some(to_be_bytes(u64_from_bytes(Unwrap(old)).val + 1))]}

\* ------------------------------------------------------------ key material
NumKeys == 2

\* The serialized keypairs Ed25519KeyPair::generate can produce, and stored
\* blobs that do not decode.
GeneratedBlobs == 1..NumKeys
CorruptBlobs == {0}

\* utils::generate_keypair, the transform load hands to update_and_fetch: a
\* value already present is passed through, an absent one is replaced by a
\* freshly generated keypair (any of GeneratedBlobs).
generate_keypair(old) ==
    IF IsSome(old) THEN {[panic |-> FALSE, next |-> old]}
    ELSE {[panic |-> FALSE, next |-> Some(k)] : k \in GeneratedBlobs}

\* ruma::signatures::Ed25519KeyPair::new(document, version)
Ed25519KeyPair_new(document, version) ==
    IF document \in GeneratedBlobs
    THEN [ok |-> TRUE, val |-> [document |-> document, version |-> version]]
    ELSE [ok |-> FALSE, val |-> [document |-> 0, version |-> ""]]

\* ----------------------------------------------------------- configuration
\* An i64 / u32 as 16-bit limbs, most significant first (two's complement).
LimbBase == 256 * 256
I64FromNat(n) == <<0, 0, n \div LimbBase, n % LimbBase>>
I64MinusOne == <<LimbBase - 1, LimbBase - 1, LimbBase - 1, LimbBase - 1>>
I64TwoTo32 == <<0, 1, 0, 0>>
U32Max == <<LimbBase - 1, LimbBase - 1>>

\* Mutant of u32_try_from: the low 32 bits, as an `as u32` cast would give.
u32_try_from_Wrapping(i) == [ok |-> TRUE, val |-> <<i[3], i[4]>>]

\* u32::try_from(i64)
u32_try_from(i) ==
    IF i[1] = 0 /\ i[2] = 0
    THEN [ok |-> TRUE, val |-> <<i[3], i[4]>>]
    ELSE [ok |-> FALSE, val |-> <<0, 0>>]

DefaultMaxRequestSize == I64FromNat(20 * 1024 * 1024)

\* Box<ServerName>::try_from(String)
ValidServerNames == {"localhost", "example.org", "env.example.org"}
ServerName_try_from(s) ==
    IF s \in ValidServerNames
    THEN [ok |-> TRUE, val |-> s]
    ELSE [ok |-> FALSE, val |-> ""]

\* Option::unwrap_or / Result::unwrap_or_else
unwrap_or(o, d) == IF IsSome(o) THEN Unwrap(o) ELSE d

\* A setting's value (rocket::config::Value) by its type, and an environment
\* variable's value (OsString), which need not be valid Unicode.
StrValue(s) == [type |-> "str", str |-> s, int |-> I64FromNat(0), bool |-> FALSE]
IntValue(i) == [type |-> "int", str |-> "", int |-> i, bool |-> FALSE]
BoolValue(b) == [type |-> "bool", str |-> "", int |-> I64FromNat(0), bool |-> b]
Unicode(s) == [unicode |-> TRUE, text |-> s]
NotUnicode == [unicode |-> FALSE, text |-> ""]

\* rocket::Config::get_str / get_int / get_bool: Ok for a setting that is
\* present and of the type asked for, Err otherwise.
get_str(cfg, name) ==
    IF IsSome(cfg[name]) /\ Unwrap(cfg[name]).type = "str"
    THEN Some(Unwrap(cfg[name]).str) ELSE None
get_int(cfg, name) ==
    IF IsSome(cfg[name]) /\ Unwrap(cfg[name]).type = "int"
    THEN Some(Unwrap(cfg[name]).int) ELSE None
get_bool(cfg, name) ==
    IF IsSome(cfg[name]) /\ Unwrap(cfg[name]).type = "bool"
    THEN Some(Unwrap(cfg[name]).bool) ELSE None

\* std::env::var: Ok for a variable that is set and valid Unicode.
env_var(environ, name) ==
    IF IsSome(environ[name]) /\ Unwrap(environ[name]).unicode
    THEN Some(Unwrap(environ[name]).text) ELSE None

NoHandle == None

\* Result values: what a store call hands back, and what an operation returns.
StoreOk(v) == [ok |-> TRUE, val |-> v]
StoreErr == [ok |-> FALSE, val |-> None]
NoValue == 0 - 1

\* Mutant of load: stored bytes that do not decode are replaced by a default
\* keypair instead of failing the load.
load_DefaultOnCorrupt(fetched, cfg, environ) ==
    IF ~fetched.ok THEN [kind |-> "sled", handle |-> NoHandle]
    ELSE
    LET decoded == Ed25519KeyPair_new(Unwrap(fetched.val), "key1")
        keypair == IF decoded.ok THEN decoded ELSE Ed25519KeyPair_new(1, "key1")
        server_name == ServerName_try_from(
                           unwrap_or(get_str(cfg, "server_name"),
                                     unwrap_or(env_var(environ, "SERVER_NAME"),
                                               "localhost")))
        max_request_size == u32_try_from(
                                unwrap_or(get_int(cfg, "max_request_size"),
                                          DefaultMaxRequestSize))
    IN  IF ~server_name.ok \/ ~max_request_size.ok
        THEN [kind |-> "bad_config", handle |-> NoHandle]
        ELSE [kind |-> "ok",
              handle |-> Some([keypair |-> keypair.val,
                               reqwest_client |-> "client",
                               server_name |-> server_name.val,
                               max_request_size |-> max_request_size.val,
                               registration_disabled |->
                                   unwrap_or(get_bool(cfg, "registration_disabled"), FALSE),
                               encryption_disabled |->
                                   unwrap_or(get_bool(cfg, "encryption_disabled"), FALSE),
                               jwt_decoding_key |->
                                   unwrap_or(get_str(cfg, "jwt_secret"),
                                             unwrap_or(env_var(environ, "JWT_SECRET"),
                                                       "jwt_secret"))])]

\* Mutant of load: the environment variables are consulted before the
\* configuration.
load_EnvFirst(fetched, cfg, environ) ==
    IF ~fetched.ok THEN [kind |-> "sled", handle |-> NoHandle]
    ELSE
    LET keypair == Ed25519KeyPair_new(Unwrap(fetched.val), "key1")
        jwt_secret == unwrap_or(env_var(environ, "JWT_SECRET"),
                                unwrap_or(get_str(cfg, "jwt_secret"), "jwt_secret"))
        server_name == ServerName_try_from(
                           unwrap_or(env_var(environ, "SERVER_NAME"),
                                     unwrap_or(get_str(cfg, "server_name"),
                                               "localhost")))
        max_request_size == u32_try_from(
                                unwrap_or(get_int(cfg, "max_request_size"),
                                          DefaultMaxRequestSize))
    IN  IF ~keypair.ok THEN [kind |-> "bad_database", handle |-> NoHandle]
        ELSE IF ~server_name.ok \/ ~max_request_size.ok
        THEN [kind |-> "bad_config", handle |-> NoHandle]
        ELSE [kind |-> "ok",
              handle |-> Some([keypair |-> keypair.val,
                               reqwest_client |-> "client",
                               server_name |-> server_name.val,
                               max_request_size |-> max_request_size.val,
                               registration_disabled |->
                                   unwrap_or(get_bool(cfg, "registration_disabled"), FALSE),
                               encryption_disabled |->
                                   unwrap_or(get_bool(cfg, "encryption_disabled"), FALSE),
                               jwt_decoding_key |-> jwt_secret])]

\* Globals::load, given what update_and_fetch("keypair", generate_keypair)
\* handed back and the process's configuration and environment.
load(fetched, cfg, environ) ==
    IF ~fetched.ok THEN [kind |-> "sled", handle |-> NoHandle]
    ELSE
    LET keypair == Ed25519KeyPair_new(Unwrap(fetched.val), "key1")
        jwt_secret == unwrap_or(get_str(cfg, "jwt_secret"),
                                unwrap_or(env_var(environ, "JWT_SECRET"), "jwt_secret"))
        server_name == ServerName_try_from(
                           unwrap_or(get_str(cfg, "server_name"),
                                     unwrap_or(env_var(environ, "SERVER_NAME"),
                                               "localhost")))
        max_request_size == u32_try_from(
                                unwrap_or(get_int(cfg, "max_request_size"),
                                          DefaultMaxRequestSize))
    IN  IF ~keypair.ok THEN [kind |-> "bad_database", handle |-> NoHandle]
        ELSE IF ~server_name.ok THEN [kind |-> "bad_config", handle |-> NoHandle]
        ELSE IF ~max_request_size.ok THEN [kind |-> "bad_config", handle |-> NoHandle]
        ELSE [kind |-> "ok",
              handle |-> Some([keypair |-> keypair.val,
                               reqwest_client |-> "client",
                               server_name |-> server_name.val,
                               max_request_size |-> max_request_size.val,
                               registration_disabled |->
                                   unwrap_or(get_bool(cfg, "registration_disabled"), FALSE),
                               encryption_disabled |->
                                   unwrap_or(get_bool(cfg, "encryption_disabled"), FALSE),
                               jwt_decoding_key |-> jwt_secret])]

\* Mutant of next_count: hands back the value before the update, as
\* fetch_and_update would.
next_count_FetchOld(fetched) ==
    IF ~fetched.ok THEN [kind |-> "sled", val |-> NoValue]
    ELSE LET n == u64_from_bytes(Unwrap(fetched.val))
         IN  IF n.ok THEN [kind |-> "ok", val |-> n.val - 1]
             ELSE [kind |-> "bad_database", val |-> NoValue]

\* Globals::next_count, given what update_and_fetch(COUNTER, increment)
\* handed back.
next_count(fetched) ==
    IF ~fetched.ok THEN [kind |-> "sled", val |-> NoValue]
    ELSE LET n == u64_from_bytes(Unwrap(fetched.val))
         IN  IF n.ok THEN [kind |-> "ok", val |-> n.val]
             ELSE [kind |-> "bad_database", val |-> NoValue]

\* Mutants of current_count: an absent counter read as 1; a failed get read as
\* absence.
current_count_AbsentIsOne(got) ==
    IF ~got.ok THEN [kind |-> "sled", val |-> NoValue]
    ELSE IF got.val = None THEN [kind |-> "ok", val |-> 1]
    ELSE LET n == u64_from_bytes(Unwrap(got.val))
         IN  IF n.ok THEN [kind |-> "ok", val |-> n.val]
             ELSE [kind |-> "bad_database", val |-> NoValue]

current_count_FaultIsAbsent(got) ==
    IF ~got.ok \/ got.val = None THEN [kind |-> "ok", val |-> 0]
    ELSE LET n == u64_from_bytes(Unwrap(got.val))
         IN  IF n.ok THEN [kind |-> "ok", val |-> n.val]
             ELSE [kind |-> "bad_database", val |-> NoValue]

\* Globals::current_count, given what get(COUNTER) handed back.
current_count(got) ==
    IF ~got.ok THEN [kind |-> "sled", val |-> NoValue]
    ELSE IF got.val = None THEN [kind |-> "ok", val |-> 0]
    ELSE LET n == u64_from_bytes(Unwrap(got.val))
         IN  IF n.ok THEN [kind |-> "ok", val |-> n.val]
             ELSE [kind |-> "bad_database", val |-> NoValue]

\* The accessors of a handle: each hands back the field load filled in.
keypair(h) == h.keypair
reqwest_client(h) == h.reqwest_client
server_name(h) == h.server_name
max_request_size(h) == h.max_request_size
registration_disabled(h) == h.registration_disabled
encryption_disabled(h) == h.encryption_disabled
jwt_decoding_key(h) == h.jwt_decoding_key

\* ------------------------------------------------------------------ state
COUNTER == "c"
KEYPAIR == "keypair"

VARIABLES
    store,      \* the sled tree: key -> Option<bytes>
    pc,         \* where each caller is in its current call
    cur,        \* update_and_fetch's `current`, per caller
    handle,     \* the Globals each caller got from load, if any
    ret,        \* the return this step made, if it made one: who, what, from which call
    faulted,    \* whether the store operation of the step just taken failed
    given,      \* what the startup load returning in this step was given (SpecConfig)
    store0,     \* history: the tree as it was at the start
    returned,   \* history: the bag of values next_count returned
    hi,         \* history: the largest count any call returned
    committed,  \* history: every value the "keypair" key ever held
    loaded      \* history: the key material of every handle load returned

vars == <<store, pc, cur, handle, ret, faulted, given, store0, returned, hi,
          committed, loaded>>

history == <<store0, returned, hi, committed, loaded>>

\* ------------------------------------------------------------ initial state
InitCounterValues == {5, 255}
MalformedCounters == {<<0, 0, 0, 5>>, <<0, 0, 0, 0, 0, 0, 0, 0, 5>>}
InitCounters ==
    {None} \cup {Some(to_be_bytes(v)) : v \in InitCounterValues}
           \cup {Some(b) : b \in MalformedCounters}
InitKeypairs == {None, Some(1)} \cup {Some(b) : b \in CorruptBlobs}

ConfigUnset ==
    [server_name |-> None, max_request_size |-> None, jwt_secret |-> None,
     registration_disabled |-> None, encryption_disabled |-> None]
ConfigSet ==
    [server_name |-> Some(StrValue("example.org")),
     max_request_size |-> Some(IntValue(I64FromNat(1024))),
     jwt_secret |-> Some(StrValue("s3cret")),
     registration_disabled |-> Some(BoolValue(TRUE)),
     encryption_disabled |-> Some(BoolValue(FALSE))]
Configs ==
    {ConfigUnset,
     [ConfigUnset EXCEPT !.server_name = Some(StrValue("not a name"))],
     [ConfigSet EXCEPT !.max_request_size = Some(IntValue(I64TwoTo32))]}
EnvUnset == [JWT_SECRET |-> None, SERVER_NAME |-> None]
Envs == {EnvUnset}

NoRet == [caller |-> 0, op |-> "none", kind |-> "none", val |-> NoValue]
NoGiven == [config |-> ConfigUnset, env |-> EnvUnset]

Init ==
    /\ \E c \in InitCounters, k \in InitKeypairs :
           store = [key \in {COUNTER, KEYPAIR} |-> IF key = COUNTER THEN c ELSE k]
    /\ pc = [t \in Callers |-> "idle"]
    /\ cur = [t \in Callers |-> None]
    /\ handle = [t \in Callers |-> NoHandle]
    /\ ret = NoRet
    /\ given = NoGiven
    /\ store0 = store
    /\ returned = EmptyBag
    /\ hi = 0
    /\ faulted = FALSE
    /\ committed = {store[KEYPAIR]} \ {None}
    /\ loaded = {}

\* ---------------------------------------------------------------- helpers
Max(a, b) == IF a >= b THEN a ELSE b

\* The callers inside next_count.
InNextCount == {t \in Callers : pc[t] \in {"nc_get", "nc_cas"}}

\* The key and the transform of the update_and_fetch a caller is inside.
KeyOf(t) == IF pc[t] \in {"ld_get", "ld_cas"} THEN KEYPAIR ELSE COUNTER

\* Mutant of Transform: load's transform generates a keypair whatever is stored.
Transform_AlwaysGenerate(t, old) ==
    IF pc[t] \in {"ld_get", "ld_cas"} THEN generate_keypair(None) ELSE increment(old)

Transform(t, old) ==
    IF pc[t] \in {"ld_get", "ld_cas"} THEN generate_keypair(old) ELSE increment(old)

\* A load returns: the caller holds the handle it got, if it got one.
LoadReturns(t, r) ==
    /\ pc' = [pc EXCEPT ![t] = "idle"]
    /\ cur' = [cur EXCEPT ![t] = None]
    /\ handle' = IF r.kind = "ok" THEN [handle EXCEPT ![t] = r.handle] ELSE handle
    /\ ret' = [caller |-> t, op |-> "load", kind |-> r.kind, val |-> NoValue]
    /\ loaded' = IF r.kind = "ok"
                 THEN loaded \cup {Unwrap(r.handle).keypair.document}
                 ELSE loaded
    /\ UNCHANGED <<returned, hi>>

\* Mutant of NextCountReturns: a next_count that fails takes the caller's
\* handle with it.
NextCountReturns_DropsHandle(t, r) ==
    /\ pc' = [pc EXCEPT ![t] = "idle"]
    /\ cur' = [cur EXCEPT ![t] = None]
    /\ ret' = [caller |-> t, op |-> "next_count", kind |-> r.kind, val |-> r.val]
    /\ IF r.kind = "ok"
       THEN /\ returned' = returned (+) SetToBag({r.val})
            /\ hi' = Max(hi, r.val)
       ELSE UNCHANGED <<returned, hi>>
    /\ handle' = IF r.kind = "ok" THEN handle ELSE [handle EXCEPT ![t] = NoHandle]
    /\ UNCHANGED loaded

\* A next_count returns.
NextCountReturns(t, r) ==
    /\ pc' = [pc EXCEPT ![t] = "idle"]
    /\ cur' = [cur EXCEPT ![t] = None]
    /\ ret' = [caller |-> t, op |-> "next_count", kind |-> r.kind, val |-> r.val]
    /\ IF r.kind = "ok"
       THEN /\ returned' = returned (+) SetToBag({r.val})
            /\ hi' = Max(hi, r.val)
       ELSE UNCHANGED <<returned, hi>>
    /\ UNCHANGED <<handle, loaded>>

\* A current_count returns.
CurrentCountReturns(t, r) ==
    /\ pc' = [pc EXCEPT ![t] = "idle"]
    /\ cur' = [cur EXCEPT ![t] = None]
    /\ ret' = [caller |-> t, op |-> "current_count", kind |-> r.kind, val |-> r.val]
    /\ hi' = IF r.kind = "ok" THEN Max(hi, r.val) ELSE hi
    /\ UNCHANGED <<handle, returned, loaded>>

\* ---------------------------------------------------------------- actions
\* A caller enters Globals::load(tree, config).  The configuration it passes
\* and the environment are read only after update_and_fetch has returned, so
\* they are drawn where they are read.
LoadCall(t) ==
    /\ pc[t] = "idle"
    /\ pc' = [pc EXCEPT ![t] = "ld_get"]
    /\ ret' = NoRet /\ faulted' = FALSE /\ given' = NoGiven
    /\ UNCHANGED <<store, cur, handle, history>>

\* A caller holding a handle enters next_count.
NextCountCall(t) ==
    /\ pc[t] = "idle"
    /\ IsSome(handle[t])
    /\ BagCardinality(returned) + Cardinality(InNextCount) < MaxCalls
    /\ pc' = [pc EXCEPT ![t] = "nc_get"]
    /\ ret' = NoRet /\ faulted' = FALSE /\ given' = NoGiven
    /\ UNCHANGED <<store, cur, handle, store0, returned, hi, committed,
                   loaded>>

\* A caller holding a handle enters current_count.
CurrentCountCall(t) ==
    /\ pc[t] = "idle"
    /\ IsSome(handle[t])
    /\ pc' = [pc EXCEPT ![t] = "cc_get"]
    /\ ret' = NoRet /\ faulted' = FALSE /\ given' = NoGiven
    /\ UNCHANGED <<store, cur, handle, store0, returned, hi,
                   committed, loaded>>

\* update_and_fetch reads the key's current value.
UpdateGet(t) ==
    /\ pc[t] \in {"ld_get", "nc_get"}
    /\ cur' = [cur EXCEPT ![t] = store[KeyOf(t)]]
    /\ pc' = [pc EXCEPT ![t] = IF pc[t] = "ld_get" THEN "ld_cas" ELSE "nc_cas"]
    /\ ret' = NoRet /\ faulted' = FALSE /\ given' = NoGiven
    /\ UNCHANGED <<store, handle, history>>

\* Mutant of CommitWith: load validates its configuration before it lets
\* update_and_fetch store anything.
CommitWith_ValidateFirst(t, config, environ) ==
    /\ pc[t] \in {"ld_cas", "nc_cas"}
    /\ \E o \in Transform(t, cur[t]) :
          LET rejected == /\ pc[t] = "ld_cas"
                          /\ load(StoreOk(o.next), config, environ).kind # "ok"
              stored == IF o.panic \/ rejected THEN store[KeyOf(t)] ELSE o.next IN
          /\ store' = [store EXCEPT ![KeyOf(t)] = stored]
          /\ committed' = IF pc[t] = "ld_cas" /\ ~rejected
                          THEN committed \cup {stored} ELSE committed
          /\ IF pc[t] = "ld_cas"
             THEN LoadReturns(t, load(StoreOk(o.next), config, environ))
             ELSE NextCountReturns(t, IF o.panic
                                      THEN [kind |-> "panic", val |-> NoValue]
                                      ELSE next_count(StoreOk(o.next)))
    /\ faulted' = FALSE
    /\ UNCHANGED store0

\* update_and_fetch applies the transform to `current` and compare-and-swaps.
\* The swap won: the new value is stored and handed back, and the call
\* finishes on it.  A transform that panics unwinds out of the call instead.
\* load goes on to read the configuration and environment it is given.
CommitWith(t, config, environ) ==
    /\ pc[t] \in {"ld_cas", "nc_cas"}
    /\ \E o \in Transform(t, cur[t]) :
          LET stored == IF o.panic THEN store[KeyOf(t)] ELSE o.next IN
          /\ store' = [store EXCEPT ![KeyOf(t)] = stored]
          /\ committed' = IF pc[t] = "ld_cas" THEN committed \cup {stored} ELSE committed
          /\ IF pc[t] = "ld_cas"
             THEN LoadReturns(t, load(StoreOk(o.next), config, environ))
             ELSE NextCountReturns(t, IF o.panic
                                      THEN [kind |-> "panic", val |-> NoValue]
                                      ELSE next_count(StoreOk(o.next)))
    /\ faulted' = FALSE
    /\ UNCHANGED store0

Commit(t) ==
    /\ \E config \in Configs, environ \in Envs : CommitWith(t, config, environ)
    /\ given' = NoGiven

\* ... or the swap lost: `current` becomes the value found and the transform
\* is applied again.
UpdateConflict(t) ==
    /\ pc[t] \in {"ld_cas", "nc_cas"}
    /\ store[KeyOf(t)] # cur[t]
    /\ cur' = [cur EXCEPT ![t] = store[KeyOf(t)]]
    /\ ret' = NoRet /\ faulted' = FALSE /\ given' = NoGiven
    /\ UNCHANGED <<store, pc, handle, history>>

\* Mutant of UpdateCommit: the new value is written without comparing, as a
\* get followed by an insert would.
UpdateCommit_NoCompare(t) == Commit(t)

UpdateCommit(t) ==
    /\ store[KeyOf(t)] = cur[t]
    /\ Commit(t)

\* Mutant of CurrentCountGet: an absent counter is created as it is read.
CurrentCountGet_Creates(t) ==
    /\ pc[t] = "cc_get"
    /\ CurrentCountReturns(t, current_count(StoreOk(store[COUNTER])))
    /\ given' = NoGiven
    /\ store' = IF store[COUNTER] = None
                THEN [store EXCEPT ![COUNTER] = Some(to_be_bytes(0))]
                ELSE store
    /\ faulted' = FALSE
    /\ UNCHANGED <<store0, committed>>

\* Mutant of CurrentCountGet: the count is read from a copy taken at startup.
CurrentCountGet_Cached(t) ==
    /\ pc[t] = "cc_get"
    /\ CurrentCountReturns(t, current_count(StoreOk(store0[COUNTER])))
    /\ given' = NoGiven
    /\ faulted' = FALSE
    /\ UNCHANGED <<store, store0, committed>>

\* current_count's get.
CurrentCountGet(t) ==
    /\ pc[t] = "cc_get"
    /\ CurrentCountReturns(t, current_count(StoreOk(store[COUNTER])))
    /\ given' = NoGiven
    /\ faulted' = FALSE
    /\ UNCHANGED <<store, store0, committed>>

\* The store operation a caller is in fails with an I/O error.
StoreFault(t) ==
    /\ pc[t] # "idle"
    /\ faulted' = TRUE
    /\ given' = NoGiven
    /\ CASE pc[t] \in {"ld_get", "ld_cas"} -> LoadReturns(t, load(StoreErr, ConfigUnset, EnvUnset))
         [] pc[t] \in {"nc_get", "nc_cas"} -> NextCountReturns(t, next_count(StoreErr))
         [] OTHER -> CurrentCountReturns(t, current_count(StoreErr))
    /\ UNCHANGED <<store, store0, committed>>

\* The process stops and a new incarnation starts on the same tree.
Restart ==
    /\ \E t \in Callers : pc[t] # "idle" \/ IsSome(handle[t])
    /\ pc' = [t \in Callers |-> "idle"]
    /\ cur' = [t \in Callers |-> None]
    /\ handle' = [t \in Callers |-> NoHandle]
    /\ ret' = NoRet /\ faulted' = FALSE /\ given' = NoGiven
    /\ UNCHANGED <<store, store0, returned, hi, committed, loaded>>

Next ==
    \/ \E t \in Callers : LoadCall(t)
    \/ \E t \in Callers : NextCountCall(t)
    \/ \E t \in Callers : CurrentCountCall(t)
    \/ \E t \in Callers : UpdateGet(t)
    \/ \E t \in Callers : UpdateConflict(t)
    \/ \E t \in Callers : UpdateCommit(t)
    \/ \E t \in Callers : CurrentCountGet(t)
    \/ \E t \in Callers : StoreFault(t)
    \/ Restart

Spec == Init /\ [][Next]_vars

\* --------------------------------------------- load under every configuration
\* The process loads once at startup, and is restarted and loads again, each
\* time with any of the configurations and environments below: settings unset,
\* set, set to a value validation rejects, and set to a value of another type.
AllConfigs ==
    [server_name : {None, Some(StrValue("example.org")), Some(StrValue("not a name")),
                    Some(IntValue(I64FromNat(1024)))},
     max_request_size : {None, Some(IntValue(I64FromNat(0))),
                         Some(IntValue(I64FromNat(1024))),
                         Some(IntValue(<<0, 0>> \o U32Max)),
                         Some(IntValue(I64TwoTo32)), Some(IntValue(I64MinusOne)),
                         Some(StrValue("20 MiB"))},
     jwt_secret : {None, Some(StrValue("s3cret"))},
     registration_disabled : {None, Some(BoolValue(TRUE))},
     encryption_disabled : {None}]
AllEnvs ==
    [JWT_SECRET : {None, Some(Unicode("env-s3cret")), Some(NotUnicode)},
     SERVER_NAME : {None, Some(Unicode("env.example.org")), Some(Unicode("not a name")),
                    Some(NotUnicode)}]

Loader == 1

StartupLoadCall(t) ==
    /\ handle[t] = NoHandle
    /\ LoadCall(t)

\* The loader's compare-and-swap wins; what the load was given is recorded.
LoadCommit(t) ==
    /\ store[KeyOf(t)] = cur[t]
    /\ \E config \in AllConfigs, environ \in AllEnvs :
           /\ CommitWith(t, config, environ)
           /\ given' = [config |-> config, env |-> environ]

NextConfig ==
    \/ StartupLoadCall(Loader)
    \/ UpdateGet(Loader)
    \/ LoadCommit(Loader)
    \/ Restart

SpecConfig == Init /\ [][NextConfig]_vars

\* ----------------------------------------------------------- properties
\* The count a stored counter stands for and the bytes a count is stored as,
\* written out digit by digit for counts below 2^32.
CountOf(o) ==
    IF o = None THEN 0
    ELSE Unwrap(o)[5] * 16777216 + Unwrap(o)[6] * 65536 + Unwrap(o)[7] * 256 + Unwrap(o)[8]
EncodingOf(n) ==
    <<0, 0, 0, 0, n \div 16777216, (n \div 65536) % 256, (n \div 256) % 256, n % 256>>
WellFormed(o) == o = None \/ Len(Unwrap(o)) = 8
CountReturned(r) == r.op \in {"next_count", "current_count"} /\ r.kind = "ok"

\* C1: from an empty store, once every next_count call in progress has
\* returned, the values returned so far by all callers are exactly 1..N, each
\* once, and current_count then yields N.
C1_CountsFromEmptyAreDense ==
    (store0[COUNTER] = None /\ InNextCount = {}) =>
        LET n == BagCardinality(returned) IN
        /\ returned = SetToBag(1..n)
        /\ current_count(StoreOk(store[COUNTER])) = [kind |-> "ok", val |-> n]

C1_Witness ==
    /\ store0[COUNTER] = None
    /\ InNextCount = {}
    /\ returned = SetToBag(1..MaxCalls)
    /\ ret.op = "next_count"
    /\ \A t \in Callers : IsSome(handle[t])

\* C2: whenever the counter is absent (v = 0) or holds the encoding of v, a
\* current_count returns v and leaves the store alone, and a next_count returns
\* v + 1 and stores the 8-byte big-endian encoding of v + 1, which a
\* current_count then reads as v + 1.
C2_ReadsAndIncrementsStoredValue ==
    [][WellFormed(store[COUNTER]) =>
         LET v == CountOf(store[COUNTER]) IN
         /\ (ret'.op = "current_count" /\ ret'.kind # "sled") =>
                ret' = [caller |-> ret'.caller, op |-> "current_count",
                        kind |-> "ok", val |-> v]
         /\ (ret'.op = "next_count" /\ ret'.kind # "sled") =>
                /\ ret'.kind = "ok"
                /\ ret'.val = v + 1
                /\ store'[COUNTER] = Some(EncodingOf(v + 1))
                /\ current_count(StoreOk(store'[COUNTER])) =
                       [kind |-> "ok", val |-> v + 1]]_vars

C2_Witness ==
    /\ store0[COUNTER] = Some(<<0, 0, 0, 0, 0, 0, 0, 5>>)
    /\ ret.op = "next_count"
    /\ ret.val = 6
    /\ store[COUNTER] = Some(<<0, 0, 0, 0, 0, 0, 0, 6>>)

C4_ConcurrentLoadsAgreeOnOneKeypair ==
    store0[KEYPAIR] = None =>
        /\ Cardinality(committed) <= 1
        /\ \A t \in Callers :
               IsSome(handle[t]) =>
                   /\ store[KEYPAIR] = Some(Unwrap(handle[t]).keypair.document)
                   /\ committed = {Some(Unwrap(handle[t]).keypair.document)}
        /\ \A t, u \in Callers :
               (IsSome(handle[t]) /\ IsSome(handle[u])) =>
                   Unwrap(handle[t]).keypair = Unwrap(handle[u]).keypair

\* One caller's load has returned a handle while another, which read the key
\* when it was still absent, is about to compare-and-swap.
C4_Witness ==
    /\ store0[KEYPAIR] = None
    /\ \E t, u \in Callers :
           /\ IsSome(handle[t])
           /\ ret = [caller |-> t, op |-> "load", kind |-> "ok", val |-> NoValue]
           /\ pc[u] = "ld_cas"
           /\ cur[u] = None

\* C5: every load on one store, before or after a restart, returns the same
\* key material, and on a store that already held key material it returns
\* that material and commits nothing new.
C5_LoadIsIdempotent ==
    /\ Cardinality(loaded) <= 1
    /\ loaded \subseteq {Unwrap(k) : k \in committed}
    /\ IsSome(store0[KEYPAIR]) =>
           /\ loaded \subseteq {Unwrap(store0[KEYPAIR])}
           /\ committed = {store0[KEYPAIR]}

\* A second load has just returned on a store that held key material from the
\* start: another caller already holds a handle.
C5_Witness ==
    /\ store0[KEYPAIR] = Some(1)
    /\ loaded = {1}
    /\ \E t, u \in Callers :
           /\ t # u
           /\ ret = [caller |-> t, op |-> "load", kind |-> "ok", val |-> NoValue]
           /\ IsSome(handle[t]) /\ IsSome(handle[u])

\* C6: once the "keypair" key holds a value, no step changes it.
C6_KeypairNeverOverwritten ==
    [][IsSome(store[KEYPAIR]) => store'[KEYPAIR] = store[KEYPAIR]]_vars

\* A load has committed key material on a store that had none, and a later
\* load has returned on it.
C6_Witness ==
    /\ store0[KEYPAIR] = None
    /\ IsSome(store[KEYPAIR])
    /\ ret.op = "load" /\ ret.kind = "ok"
    /\ \E u \in Callers : u # ret.caller /\ IsSome(handle[u])

C8_CorruptKeypairIsAnError ==
    [][(IsSome(store[KEYPAIR]) /\ Unwrap(store[KEYPAIR]) \in CorruptBlobs) =>
          /\ \A t \in Callers : handle'[t] = NoHandle
          /\ store'[KEYPAIR] = store[KEYPAIR]
          /\ (ret'.op = "load" /\ ret'.kind # "sled") => ret'.kind = "bad_database"]_vars

C8_Witness ==
    /\ IsSome(store[KEYPAIR]) /\ Unwrap(store[KEYPAIR]) \in CorruptBlobs
    /\ ret.op = "load"
    /\ ret.kind = "bad_database"

\* C9: the step in which a current_count returns leaves the store as it was,
\* whether the counter is absent, well-formed or malformed.
C9_CurrentCountIsPureRead ==
    [][\A t \in Callers : (pc[t] = "cc_get" /\ pc'[t] = "idle") => store' = store]_vars

C9_Witness ==
    /\ store[COUNTER] = None
    /\ ret.op = "current_count"
    /\ ret.kind = "ok"

\* C10: a failing store operation ends the call it belongs to at once with a
\* storage error: no value, no handle, no other error kind, nothing written.
C10_StoreFaultSurfacesAsStorageError ==
    [][faulted' =>
          \E t \in Callers :
              /\ pc[t] # "idle" /\ pc'[t] = "idle"
              /\ ret' = [caller |-> t,
                         op |-> CASE pc[t] \in {"ld_get", "ld_cas"} -> "load"
                                  [] pc[t] \in {"nc_get", "nc_cas"} -> "next_count"
                                  [] OTHER -> "current_count",
                         kind |-> "sled", val |-> NoValue]
              /\ handle' = handle
              /\ store' = store
              /\ returned' = returned]_vars

C10_Witness ==
    /\ faulted
    /\ ret.op = "current_count"
    /\ ret.kind = "sled"

\* C11: a load that got as far as validating its configuration yields 20 MiB
\* as max_request_size() when the setting is unset, v when it is set to an
\* integer v in 0..2^32-1, and fails with a configuration error, handing out
\* no limit at all, when it is set to an integer outside that range.
C11_MaxRequestSizeIsCheckedNotTruncated ==
    (ret.op = "load" /\ ret.kind \in {"ok", "bad_config"}) =>
        LET m == given.config.max_request_size
            named == given.config.server_name = Some(StrValue("example.org"))
            limit == <<0, 0>> \o max_request_size(Unwrap(handle[ret.caller]))
        IN  IF m = None
            THEN /\ named => ret.kind = "ok"
                 /\ ret.kind = "ok" => limit = <<0, 0, 320, 0>>
            ELSE IF Unwrap(m).type # "int" THEN TRUE
            ELSE IF Unwrap(m).int[1] = 0 /\ Unwrap(m).int[2] = 0
            THEN /\ named => ret.kind = "ok"
                 /\ ret.kind = "ok" => limit = Unwrap(m).int
            ELSE ret.kind = "bad_config"

\* A load given max_request_size = -1 has failed with a configuration error
\* although its server name was valid.
C11_Witness ==
    /\ ret.op = "load"
    /\ ret.kind = "bad_config"
    /\ given.config.max_request_size = Some(IntValue(I64MinusOne))
    /\ given.config.server_name = Some(StrValue("example.org"))

\* C12: a handle's accessors give the same values from the load that returned
\* it until the process ends, whatever next_count and current_count calls run
\* in between; and every step of such a call leaves all handles and the stored
\* key material as they are, so that the stored counter is all it can change.
C12_HandleIsImmutable ==
    [][\A t \in Callers :
          LET CountStep ==
                  \/ pc'[t] \in {"nc_get", "nc_cas", "cc_get"}
                         /\ <<pc'[t], cur'[t]>> # <<pc[t], cur[t]>>
                  \/ ret'.caller = t /\ ret'.op \in {"next_count", "current_count"}
              Accessors(h) ==
                  <<keypair(h), reqwest_client(h), server_name(h), max_request_size(h),
                    registration_disabled(h), encryption_disabled(h),
                    jwt_decoding_key(h)>>
          IN  /\ (IsSome(handle[t]) /\ IsSome(handle'[t])
                     /\ ~(ret'.caller = t /\ ret'.op = "load")) =>
                    \/ handle'[t] = handle[t]
                    \/ Accessors(Unwrap(handle'[t])) = Accessors(Unwrap(handle[t]))
              /\ CountStep =>
                    /\ handle' = handle
                    /\ store'[KEYPAIR] = store[KEYPAIR]
                    /\ <<committed', loaded'>> = <<committed, loaded>>]_vars

\* Two callers hold handles; one has just got a count from next_count while
\* the other is inside current_count.
C12_Witness ==
    \E t, u \in Callers :
        /\ t # u
        /\ IsSome(handle[t]) /\ IsSome(handle[u])
        /\ ret.caller = t /\ ret.op = "next_count" /\ ret.kind = "ok"
        /\ BagCardinality(returned) >= 2
        /\ pc[u] = "cc_get"

\* C13: on a store that started without a counter, a current_count returns a
\* count that is at least the number of next_count calls that have returned
\* and at most that number plus the next_count calls in progress.
C13_CurrentCountSeesCommittedValue ==
    (store0[COUNTER] = None /\ ret.op = "current_count" /\ ret.kind = "ok") =>
        /\ BagCardinality(returned) <= ret.val
        /\ ret.val <= BagCardinality(returned) + Cardinality(InNextCount)

\* A current_count has returned a count while a next_count that read an
\* older value is between its read and its compare-and-swap.
C13_Witness ==
    /\ store0[COUNTER] = None
    /\ ret.op = "current_count" /\ ret.kind = "ok"
    /\ ret.val >= 1
    /\ \E u \in Callers : pc[u] = "nc_cas" /\ CountOf(cur[u]) < ret.val

C15_ConfigThenEnvThenLiteral ==
    (ret.op = "load" /\ ret.kind \in {"ok", "bad_config"}) =>
        LET c == given.config
            e == given.env
            Supplied(o) == IsSome(o) /\ Unwrap(o).type = "str"
            Set(o) == IsSome(o) /\ Unwrap(o).unicode
            h == Unwrap(handle[ret.caller])
        IN  /\ ret.kind = "ok" =>
                  /\ jwt_decoding_key(h) =
                         IF Supplied(c.jwt_secret) THEN Unwrap(c.jwt_secret).str
                         ELSE IF Set(e.JWT_SECRET) THEN Unwrap(e.JWT_SECRET).text
                         ELSE "jwt_secret"
                  /\ server_name(h) =
                         IF Supplied(c.server_name) THEN Unwrap(c.server_name).str
                         ELSE IF Set(e.SERVER_NAME) THEN Unwrap(e.SERVER_NAME).text
                         ELSE "localhost"
            /\ c.server_name = Some(StrValue("not a name")) => ret.kind = "bad_config"

\* A load has returned a handle whose jwt secret is the configuration's
\* although JWT_SECRET is set, and whose server name is SERVER_NAME's because
\* the configuration has none.
C15_Witness ==
    /\ ret.op = "load"
    /\ ret.kind = "ok"
    /\ given.config.jwt_secret = Some(StrValue("s3cret"))
    /\ given.env.JWT_SECRET = Some(Unicode("env-s3cret"))
    /\ given.config.server_name = None
    /\ given.env.SERVER_NAME = Some(Unicode("env.example.org"))
    /\ jwt_decoding_key(Unwrap(handle[ret.caller])) = "s3cret"
    /\ server_name(Unwrap(handle[ret.caller])) = "env.example.org"

C17_KeyIsCommittedBeforeConfigIsValidated ==
    [][/\ (ret'.op = "load" /\ ret'.kind = "bad_config") =>
              /\ IsSome(store'[KEYPAIR])
              /\ Unwrap(store'[KEYPAIR]) \in GeneratedBlobs
              /\ store0[KEYPAIR] = None => store'[KEYPAIR] \in committed'
       /\ (ret'.op = "load" /\ ret'.kind = "ok" /\ IsSome(store[KEYPAIR])) =>
              /\ keypair(Unwrap(handle'[ret'.caller])).document = Unwrap(store[KEYPAIR])
              /\ store' = store]_vars

\* On a store that started without key material a load has failed with a
\* configuration error, no load has returned a handle yet, and key material is
\* stored; another caller is inside load.
C17_Witness ==
    /\ store0[KEYPAIR] = None
    /\ ret.op = "load" /\ ret.kind = "bad_config"
    /\ loaded = {}
    /\ IsSome(store[KEYPAIR])
    /\ \E u \in Callers : u # ret.caller /\ pc[u] = "ld_get"

====
